---- MODULE Spec2Model ----
(***************************************************************************)
(* Model of src/src/utils/diagrams.py: the two diagram emitters            *)
(* generate_dt_net_diagram and generate_it_net_diagram, the drawing        *)
(* helpers _draw_block and _draw_arrow, the module palette COLORS and the  *)
(* __main__ entry point.                                                   *)
(*                                                                         *)
(* Coordinates are in hundredths of a data unit (3.5 is 350): every        *)
(* literal of the source is a multiple of 0.01, and every comparison the   *)
(* properties make has a margin of at least 0.02, far above float          *)
(* rounding.  The y axis points up (ax.set_ylim(1, 6)): "below" is a       *)
(* smaller y.  Texts are ASCII transliterations of the source strings.     *)
(***************************************************************************)
EXTENDS Integers, Sequences, FiniteSets, TLC

VARIABLES
    mode,      \* "main": run as a script (__main__); "lib": imported, emitters called by a caller that catches
    pc,        \* position: "idle", a step of the running emitter, or "exit"
    calls,     \* one record per emitter invocation so far (the last is the running one)
    frame,     \* locals of the running emitter: variant, output_path, fig, i (primitives issued)
    figs,      \* every Figure object created so far: its owner call, canvas, laid-out and saved marks
    open,      \* pyplot's registry of open figures, in order; its last entry is the current figure
    parent,    \* output_path.parent on disk: "absent", "dir" or "file"
    canCreate, \* whether the process may create output_path.parent
    mkdirs,    \* number of times a directory was created by mkdir
    files,     \* content of each output path
    stdout,    \* lines written by print
    COLORS     \* the module-level palette (a mutable dict)

vars == <<mode, pc, calls, frame, figs, open, parent, canCreate, mkdirs, files, stdout, COLORS>>

\* Largest number of emitter invocations a library caller makes.
MaxCalls == 2

Variants == {"dt", "it"}

\* The two file names under one output directory (the __main__ defaults).
Paths == {"dt_net_architecture.pdf", "it_net_architecture.pdf"}

PALETTE ==
    [input |-> "#E3F2FD", projection |-> "#90CAF9", recur |-> "#4CAF50",
     residual |-> "#A5D6A7", head |-> "#FFE0B2", output |-> "#FFF3E0",
     arrow |-> "#37474F", concat |-> "#7B1FA2", text |-> "#212121",
     gray |-> "#757575"]

(***************************************************************************)
(* Drawing primitives.  A primitive is a record: kind is the matplotlib    *)
(* call, (x1, y1) the first point (lower-left corner of a box, centre of a *)
(* circle, position of a text, start of a line or arrow), (x2, y2) the     *)
(* second point (width and height of a box, radius of a circle, end of a   *)
(* line, tip of an arrow).  elem and role tag the diagram element the      *)
(* statement belongs to and what it is there: they are not drawn.          *)
(***************************************************************************)
prim(kind, elem, role, x1, y1, x2, y2, text, color, style) ==
    [kind |-> kind, elem |-> elem, role |-> role, x1 |-> x1, y1 |-> y1,
     x2 |-> x2, y2 |-> y2, text |-> text, color |-> color, style |-> style]

ax_text(elem, role, x, y, s, color, style) ==
    prim("text", elem, role, x, y, 0, 0, s, color, style)

ax_plot(elem, xa, xb, ya, yb, color, style) ==
    prim("line", elem, "route", xa, ya, xb, yb, "", color, style)

\* ax.annotate('', xy=(tx, ty), xytext=(sx, sy), arrowprops=...): an arrow from xytext to xy
ax_annotate(elem, tx, ty, sx, sy, color, style) ==
    prim("annotate", elem, "route", sx, sy, tx, ty, "", color, style)

draw_block(elem, x, y, w, h, title, subtitle, color) ==
    <<prim("box", elem, "block", x - w \div 2, y - h \div 2, w, h, "", color,
           "round,pad=0.02,rounding_size=0.1 edge=#424242 lw=2.5")>>
    \o (IF subtitle # ""
        THEN <<ax_text(elem, "block", x, y + 15, title, COLORS.text, "center fs13 bold"),
               ax_text(elem, "block", x, y - 20, subtitle, COLORS.gray, "center fs10")>>
        ELSE <<ax_text(elem, "block", x, y, title, COLORS.text, "center fs13 bold")>>)

draw_arrow(x1, y1, x2, y2) ==
    <<prim("arrow", "flow", "arrow", x1, y1, x2, y2, "", COLORS.arrow, "-|> ms18 lw2")>>

(***************************************************************************)
(* generate_dt_net_diagram: its locals, then the drawing statements of     *)
(* lines 80-231 in source order.                                           *)
(***************************************************************************)
dt_y == 350

dt_bw == 140

dt_bh == 100

dt_input_x == 100

dt_proj_x == 280

dt_rec_x == 680

dt_rec_w == 520

dt_rec_h == 220

dt_concat_x == 500

dt_residual_x == 800

\* dt_loop_y_bottom with the offset subtracted: the run would drop out of the region.
dt_loop_y_bottom_below == dt_y - dt_rec_h \div 2 - 15

dt_loop_y_bottom == dt_y - dt_rec_h \div 2 + 15

dt_residual_bottom == dt_y - 40 - 8

dt_concat_arrow_x_green == dt_concat_x + 10

dt_head_x == 1060

dt_output_x == 1240

dt_inject_y == dt_y - 180

dt_concat_arrow_x_purple == dt_concat_x - 10

dt_input_bottom == dt_y - dt_bh \div 2 - 8

dt_output_bottom == dt_y - dt_bh \div 2 - 8

dt_prims ==
    \* === TITLE ===
    <<ax_text("title", "title", 700, 550, "DTNet", "black", "center fs18 bold")>>
    \* Input block; arrow Input -> Projection (its tip is the literal 2.8 - bw/2); Projection block
    \o draw_block("input", dt_input_x, dt_y, dt_bw, dt_bh, "Input", "HxW / 3 ch", COLORS.input)
    \o draw_arrow(dt_input_x + dt_bw \div 2, dt_y, 280 - dt_bw \div 2, dt_y)
    \o draw_block("proj", dt_proj_x, dt_y, dt_bw, dt_bh, "Projection", "Conv2d, ReLU / 3->128 ch",
                  COLORS.projection)
    \* === RECURRENT BLOCK ===
    \o <<prim("box", "rec", "region", dt_rec_x - dt_rec_w \div 2, dt_y - dt_rec_h \div 2,
              dt_rec_w, dt_rec_h, "", "#E8F5E9",
              "round,pad=0.03,rounding_size=0.15 edge=" \o COLORS.recur \o " lw=2.5 dashed"),
         ax_text("rec", "region", dt_rec_x, dt_y + dt_rec_h \div 2 + 20,
                 "Recurrent Block  (x $K$ iterations)", COLORS.recur, "center fs12 bold")>>
    \* Concat circle (input injection point)
    \o <<prim("circle", "concat", "marker", dt_concat_x, dt_y, 22, 22, "", COLORS.concat,
              "edge=#424242 lw=1.5 z5"),
         ax_text("concat", "marker", dt_concat_x, dt_y, "+", "white", "center fs14 bold z6")>>
    \* Arrows Projection -> Concat, Concat -> Conv; Conv block; arrow Conv -> Residual; Residual block
    \o draw_arrow(dt_proj_x + dt_bw \div 2, dt_y, dt_concat_x - 22, dt_y)
    \o draw_arrow(dt_concat_x + 22, dt_y, 590, dt_y)
    \o draw_block("conv", 650, dt_y, 110, 80, "Conv", "131->128 ch", COLORS.residual)
    \o draw_arrow(705, dt_y, 745, dt_y)
    \o draw_block("residual", dt_residual_x, dt_y, 100, 80, "Residual", "2x ResBlock", COLORS.residual)
    \* Latent feedback loop: down from bottom center of Residual, left, up to concat
    \o <<ax_plot("feedback", dt_residual_x, dt_residual_x, dt_residual_bottom, dt_loop_y_bottom,
                 COLORS.recur, "lw2 round"),
         ax_plot("feedback", dt_residual_x, dt_concat_arrow_x_green, dt_loop_y_bottom, dt_loop_y_bottom,
                 COLORS.recur, "lw2 round"),
         ax_annotate("feedback", dt_concat_arrow_x_green, dt_y - 22, dt_concat_arrow_x_green,
                     dt_loop_y_bottom, COLORS.recur, "-|> lw2"),
         ax_text("feedback", "label", 680, dt_loop_y_bottom + 18, "Latent", COLORS.recur,
                 "center fs9 italic")>>
    \* === HEAD ===, arrow Residual -> Head, === OUTPUT ===, arrow Head -> Output
    \o draw_block("head", dt_head_x, dt_y, dt_bw, dt_bh, "Head", "3x Conv2d / 128->32->8->2 ch",
                  COLORS.head)
    \o draw_arrow(dt_residual_x + 50, dt_y, dt_head_x - dt_bw \div 2, dt_y)
    \o draw_block("output", dt_output_x, dt_y, dt_bw, dt_bh, "Prediction", "Argmax / HxW, 2 cls",
                  COLORS.output)
    \o draw_arrow(dt_head_x + dt_bw \div 2, dt_y, dt_output_x - dt_bw \div 2, dt_y)
    \* === INPUT INJECTION + MASK PATH (purple, below main flow) ===
    \o <<ax_plot("inject", dt_input_x, dt_input_x, dt_input_bottom, dt_inject_y, COLORS.concat,
                 "lw2.5 round"),
         ax_plot("inject", dt_input_x, dt_output_x, dt_inject_y, dt_inject_y, COLORS.concat,
                 "lw2.5 round"),
         ax_annotate("inject", dt_concat_arrow_x_purple, dt_y - 22, dt_concat_arrow_x_purple,
                     dt_inject_y, COLORS.concat, "-|> lw2.5"),
         ax_annotate("inject", dt_output_x, dt_output_bottom, dt_output_x, dt_inject_y,
                     COLORS.concat, "-|> lw2.5")>>
    \* Labels
    \o <<ax_text("inject", "label", 300, dt_inject_y - 35, "Input Injection (every iteration)",
                 "white", "center fs10 bold bbox=" \o COLORS.concat),
         ax_text("inject", "label", dt_output_x - 460, dt_inject_y - 35, "Mask (zero out walls)",
                 "white", "center fs10 bold bbox=" \o COLORS.concat)>>

(***************************************************************************)
(* generate_it_net_diagram: its locals, then the drawing statements of     *)
(* lines 256-406 in source order.                                           *)
(***************************************************************************)
it_y == 350

it_bw == 140

it_bh == 100

it_input_x == 100

it_proj_x == 280

it_rec_x == 680

it_rec_w == 520

it_rec_h == 220

it_concat_x == 500

it_residual_x == 800

it_loop_y_bottom == it_y - it_rec_h \div 2 + 15

it_residual_bottom == it_y - 40 - 8

it_concat_arrow_x_green == it_concat_x + 10

\* it_head_x moved in one builder only: the two diagrams would differ in geometry.
it_head_x_shifted == 1060 + 20

it_head_x == 1060

it_output_x == 1240

\* it_inject_y with too small an offset: the run would cut through the blocks.
it_inject_y_shallow == it_y - 40

it_inject_y == it_y - 180

it_concat_arrow_x_purple == it_concat_x - 10

it_input_bottom == it_y - it_bh \div 2 - 8

\* it_output_bottom with bh in place of bh / 2: the mask arrow would stop short of the block.
it_output_bottom_full_height == it_y - it_bh - 8

it_output_bottom == it_y - it_bh \div 2 - 8

it_prims ==
    \* === TITLE ===
    <<ax_text("title", "title", 700, 550, "ITNet", "black", "center fs18 bold")>>
    \* Input block; arrow Input -> Projection (its tip is the literal 2.8 - bw/2); Projection block
    \o draw_block("input", it_input_x, it_y, it_bw, it_bh, "Input", "HxW / 3 ch", COLORS.input)
    \o draw_arrow(it_input_x + it_bw \div 2, it_y, 280 - it_bw \div 2, it_y)
    \o draw_block("proj", it_proj_x, it_y, it_bw, it_bh, "Projection", "Conv2d, ReLU / 3->128 ch",
                  COLORS.projection)
    \* === RECURRENT BLOCK ===
    \o <<prim("box", "rec", "region", it_rec_x - it_rec_w \div 2, it_y - it_rec_h \div 2,
              it_rec_w, it_rec_h, "", "#E8F5E9",
              "round,pad=0.03,rounding_size=0.15 edge=" \o COLORS.recur \o " lw=2.5 dashed"),
         ax_text("rec", "region", it_rec_x, it_y + it_rec_h \div 2 + 20,
                 "Recurrent Block  (x $K$ iters, until $|z^(k) - z^(k-1)| < eps$)",
                 COLORS.recur, "center fs12 bold")>>
    \* Concat circle (input injection point)
    \o <<prim("circle", "concat", "marker", it_concat_x, it_y, 22, 22, "", COLORS.concat,
              "edge=#424242 lw=1.5 z5"),
         ax_text("concat", "marker", it_concat_x, it_y, "+", "white", "center fs14 bold z6")>>
    \* Arrows Projection -> Concat, Concat -> Conv; Conv block; arrow Conv -> Residual; Residual block
    \o draw_arrow(it_proj_x + it_bw \div 2, it_y, it_concat_x - 22, it_y)
    \o draw_arrow(it_concat_x + 22, it_y, 590, it_y)
    \o draw_block("conv", 650, it_y, 110, 80, "Conv", "131->128 ch", COLORS.residual)
    \o draw_arrow(705, it_y, 745, it_y)
    \o draw_block("residual", it_residual_x, it_y, 100, 80, "Residual", "4x ResBlock", COLORS.residual)
    \* Latent feedback loop: down from bottom center of Residual, left, up to concat
    \o <<ax_plot("feedback", it_residual_x, it_residual_x, it_residual_bottom, it_loop_y_bottom,
                 COLORS.recur, "lw2 round"),
         ax_plot("feedback", it_residual_x, it_concat_arrow_x_green, it_loop_y_bottom, it_loop_y_bottom,
                 COLORS.recur, "lw2 round"),
         ax_annotate("feedback", it_concat_arrow_x_green, it_y - 22, it_concat_arrow_x_green,
                     it_loop_y_bottom, COLORS.recur, "-|> lw2"),
         ax_text("feedback", "label", 680, it_loop_y_bottom + 18, "Latent", COLORS.recur,
                 "center fs9 italic")>>
    \* === HEAD ===, arrow Residual -> Head, === OUTPUT ===, arrow Head -> Output
    \o draw_block("head", it_head_x, it_y, it_bw, it_bh, "Head", "3x Conv2d / 128->32->8->2 ch",
                  COLORS.head)
    \o draw_arrow(it_residual_x + 50, it_y, it_head_x - it_bw \div 2, it_y)
    \o draw_block("output", it_output_x, it_y, it_bw, it_bh, "Prediction", "Argmax / HxW, 2 cls",
                  COLORS.output)
    \o draw_arrow(it_head_x + it_bw \div 2, it_y, it_output_x - it_bw \div 2, it_y)
    \* === INPUT INJECTION + MASK PATH (purple, below main flow) ===
    \o <<ax_plot("inject", it_input_x, it_input_x, it_input_bottom, it_inject_y, COLORS.concat,
                 "lw2.5 round"),
         ax_plot("inject", it_input_x, it_output_x, it_inject_y, it_inject_y, COLORS.concat,
                 "lw2.5 round"),
         ax_annotate("inject", it_concat_arrow_x_purple, it_y - 22, it_concat_arrow_x_purple,
                     it_inject_y, COLORS.concat, "-|> lw2.5"),
         ax_annotate("inject", it_output_x, it_output_bottom, it_output_x, it_inject_y,
                     COLORS.concat, "-|> lw2.5")>>
    \* Labels
    \o <<ax_text("inject", "label", 300, it_inject_y - 35, "Input Injection (every iteration)",
                 "white", "center fs10 bold bbox=" \o COLORS.concat),
         ax_text("inject", "label", it_output_x - 460, it_inject_y - 35, "Mask (zero out walls)",
                 "white", "center fs10 bold bbox=" \o COLORS.concat)>>

\* The statements with the two '# Labels' texts moved before the injection path.
prims_labels_first(variant) ==
    LET p == IF variant = "dt" THEN dt_prims ELSE it_prims
        n == Len(p)
    IN  SubSeq(p, 1, n - 6) \o SubSeq(p, n - 1, n) \o SubSeq(p, n - 5, n - 2)

\* The drawing statements of an emitter, in source order.
prims(variant) == IF variant = "dt" THEN dt_prims ELSE it_prims

(***************************************************************************)
(* The filesystem and pyplot, as far as the emitters use them.             *)
(***************************************************************************)
NoFrame == [variant |-> "", output_path |-> "", fig |-> 0, i |-> 0]

NoFile == [state |-> "absent", by |-> 0, variant |-> "", canvas |-> <<>>]

\* A file that was at the path before the program ran.
ForeignFile == [state |-> "foreign", by |-> 0, variant |-> "", canvas |-> <<>>]

\* A file left incomplete by a save that raised while writing.
PartialFile(k) == [state |-> "partial", by |-> k, variant |-> "", canvas |-> <<>>]

\* plt.gcf(): the figure pyplot's tight_layout and savefig act on.
gcf == IF open = <<>> THEN 0 ELSE open[Len(open)]

\* mkdir without exist_ok=True: an existing directory raises FileExistsError.
mkdir_no_exist_ok(p, can) ==
    CASE p = "absent" /\ can -> [parent |-> "dir", created |-> TRUE, raised |-> FALSE]
      [] OTHER -> [parent |-> p, created |-> FALSE, raised |-> TRUE]

\* Path.mkdir(parents=True, exist_ok=True) on output_path.parent: what it
\* leaves on disk, whether it created the directory, whether it raised.
mkdir(p, can) ==
    CASE p = "dir" -> [parent |-> "dir", created |-> FALSE, raised |-> FALSE]
      [] p = "absent" /\ can -> [parent |-> "dir", created |-> TRUE, raised |-> FALSE]
      [] p = "absent" /\ ~can -> [parent |-> "absent", created |-> FALSE, raised |-> TRUE]
      [] OTHER -> [parent |-> p, created |-> FALSE, raised |-> TRUE]

Remove(s, x) == SelectSeq(s, LAMBDA e : e # x)

\* The running call, the last of calls.
cur == Len(calls)

\* An exception that the entry point would swallow, going on to its next line.
Raised_swallowed(step) ==
    /\ calls' = [calls EXCEPT ![Len(calls)].outcome = "raised", ![Len(calls)].raisedAt = step]
    /\ frame' = NoFrame
    /\ pc' = "idle"

\* An exception leaves the emitter at once; nothing in the module catches it.
\* Under __main__ it ends the process, a library caller gets it and goes on.
Raised(step) ==
    /\ calls' = [calls EXCEPT ![cur].outcome = "raised", ![cur].raisedAt = step]
    /\ frame' = NoFrame
    /\ pc' = IF mode = "main" THEN "exit" ELSE "idle"

Begin(v, p) ==
    /\ calls' = Append(calls, [variant |-> v, path |-> p, outcome |-> "running", raisedAt |-> ""])
    /\ frame' = [variant |-> v, output_path |-> p, fig |-> 0, i |-> 0]
    /\ pc' = "mkdir"
    /\ UNCHANGED <<mode, figs, open, parent, canCreate, mkdirs, files, stdout, COLORS>>

Init ==
    /\ mode \in {"main", "lib"}
    /\ pc = "idle"
    /\ calls = <<>>
    /\ frame = NoFrame
    /\ figs = <<>>
    /\ open = <<>>
    /\ parent \in {"absent", "dir", "file"}
    /\ canCreate \in BOOLEAN
    /\ (parent # "absent" => canCreate)
    /\ mkdirs = 0
    /\ files \in IF parent = "dir"
                 THEN {[p \in Paths |-> NoFile], [p \in Paths |-> ForeignFile]}
                 ELSE {[p \in Paths |-> NoFile]}
    /\ stdout = <<>>
    /\ COLORS = PALETTE

\* __main__, line 419
MainCallDT ==
    /\ mode = "main" /\ pc = "idle" /\ calls = <<>>
    /\ Begin("dt", "dt_net_architecture.pdf")

\* __main__, line 420: reached only when line 419 returned
MainCallIT ==
    /\ mode = "main" /\ pc = "idle" /\ Len(calls) = 1
    /\ Begin("it", "it_net_architecture.pdf")

\* __main__ falls off its end
MainExit ==
    /\ mode = "main" /\ pc = "idle" /\ Len(calls) = 2
    /\ pc' = "exit"
    /\ UNCHANGED <<mode, calls, frame, figs, open, parent, canCreate, mkdirs, files, stdout, COLORS>>

\* An importing caller invokes either emitter with either path.
LibCall ==
    /\ mode = "lib" /\ pc = "idle" /\ Len(calls) < MaxCalls
    /\ \E v \in Variants, p \in Paths : Begin(v, p)

\* output_path.parent.mkdir(parents=True, exist_ok=True)
EnsureDir ==
    /\ pc = "mkdir"
    /\ LET r == mkdir(parent, canCreate) IN
       /\ parent' = r.parent
       /\ mkdirs' = IF r.created THEN mkdirs + 1 ELSE mkdirs
       /\ IF r.raised
          THEN Raised("mkdir")
          ELSE pc' = "subplots" /\ UNCHANGED <<calls, frame>>
    /\ UNCHANGED <<mode, figs, open, canCreate, files, stdout, COLORS>>

\* fig, ax = plt.subplots(...): a new figure, registered with pyplot and made current
Subplots ==
    /\ pc = "subplots"
    /\ figs' = Append(figs, [owner |-> cur, variant |-> frame.variant, canvas |-> <<>>,
                             drawnBy |-> {}, laidout |-> 0, saved |-> 0])
    /\ open' = Append(open, Len(figs) + 1)
    /\ frame' = [frame EXCEPT !.fig = Len(figs) + 1]
    /\ pc' = "draw"
    /\ UNCHANGED <<mode, calls, parent, canCreate, mkdirs, files, stdout, COLORS>>

\* The next drawing statement, on the emitter's own axes.
Draw ==
    /\ pc = "draw"
    /\ frame.i < Len(prims(frame.variant))
    /\ figs' = [figs EXCEPT ![frame.fig].canvas = Append(@, prims(frame.variant)[frame.i + 1]),
                            ![frame.fig].drawnBy = @ \cup {cur}]
    /\ frame' = [frame EXCEPT !.i = @ + 1]
    /\ pc' = IF frame.i + 1 = Len(prims(frame.variant)) THEN "tight_layout" ELSE "draw"
    /\ UNCHANGED <<mode, calls, open, parent, canCreate, mkdirs, files, stdout, COLORS>>

\* plt.tight_layout(): on pyplot's current figure
TightLayout ==
    /\ pc = "tight_layout"
    /\ figs' = [figs EXCEPT ![gcf].laidout = cur]
    /\ pc' = "savefig"
    /\ UNCHANGED <<mode, calls, frame, open, parent, canCreate, mkdirs, files, stdout, COLORS>>

\* Savefig with the report issued before the save is known to have succeeded.
Savefig_reports_first ==
    /\ pc = "savefig"
    /\ stdout' = Append(stdout, [line |-> "Saved", path |-> frame.output_path, by |-> cur])
    /\ \/ /\ files' = [files EXCEPT ![frame.output_path] =
                          [state |-> "diagram", by |-> cur, variant |-> figs[gcf].variant,
                           canvas |-> figs[gcf].canvas]]
          /\ figs' = [figs EXCEPT ![gcf].saved = cur]
          /\ pc' = "close"
          /\ UNCHANGED <<calls, frame>>
       \/ /\ Raised("savefig")
          /\ UNCHANGED <<files, figs>>
    /\ UNCHANGED <<mode, open, parent, canCreate, mkdirs, COLORS>>

\* plt.savefig(output_path, ...): writes pyplot's current figure over whatever is at the
\* path, or raises (rendering, disk, permission), before or after it began to write.
Savefig ==
    /\ pc = "savefig"
    /\ \/ /\ files' = [files EXCEPT ![frame.output_path] =
                          [state |-> "diagram", by |-> cur, variant |-> figs[gcf].variant,
                           canvas |-> figs[gcf].canvas]]
          /\ figs' = [figs EXCEPT ![gcf].saved = cur]
          /\ pc' = "close"
          /\ UNCHANGED <<calls, frame>>
       \/ /\ Raised("savefig")
          /\ UNCHANGED <<files, figs>>
       \/ /\ Raised("savefig")
          /\ files' = [files EXCEPT ![frame.output_path] = PartialFile(cur)]
          /\ UNCHANGED figs
    /\ UNCHANGED <<mode, open, parent, canCreate, mkdirs, stdout, COLORS>>

\* CloseFig in an emitter that also rebinds an entry of the shared palette.
CloseFig_dirty_palette ==
    /\ pc = "close"
    /\ open' = Remove(open, frame.fig)
    /\ COLORS' = [COLORS EXCEPT !.arrow = "#000000"]
    /\ pc' = "print"
    /\ UNCHANGED <<mode, calls, frame, figs, parent, canCreate, mkdirs, files, stdout>>

\* plt.close(fig)
CloseFig ==
    /\ pc = "close"
    /\ open' = Remove(open, frame.fig)
    /\ pc' = "print"
    /\ UNCHANGED <<mode, calls, frame, figs, parent, canCreate, mkdirs, files, stdout, COLORS>>

\* print(f'Saved: {output_path}'), then the emitter returns
PrintSaved ==
    /\ pc = "print"
    /\ stdout' = Append(stdout, [line |-> "Saved", path |-> frame.output_path, by |-> cur])
    /\ calls' = [calls EXCEPT ![cur].outcome = "returned"]
    /\ frame' = NoFrame
    /\ pc' = "idle"
    /\ UNCHANGED <<mode, figs, open, parent, canCreate, mkdirs, files, COLORS>>

Next ==
    \/ MainCallDT
    \/ MainCallIT
    \/ MainExit
    \/ LibCall
    \/ EnsureDir
    \/ Subplots
    \/ Draw
    \/ TightLayout
    \/ Savefig
    \/ CloseFig
    \/ PrintSaved

Spec == Init /\ [][Next]_vars

(***************************************************************************)
(* Geometry read back from the primitives on a canvas.                     *)
(***************************************************************************)
\* The canvas the running emitter is drawing on, after each of its drawing statements.
Building ==
    IF pc \in {"draw", "tight_layout"} THEN {figs[frame.fig].canvas} ELSE {}

\* The canvas the running emitter has just finished building: every finished canvas
\* is this one at the end of its emitter's last drawing statement.
Built == IF pc = "tight_layout" THEN {figs[frame.fig].canvas} ELSE {}

\* The canvases the builder has finished.
Finished(v) ==
    {figs[f].canvas : f \in {g \in DOMAIN figs :
        figs[g].variant = v /\ Len(figs[g].canvas) = Len(prims(v))}}

IsShape(p) == p.kind \in {"box", "circle"}

IsConnector(p) == p.role \in {"arrow", "route"}

\* Bounding box of a box or circle primitive, as drawn from its arguments.
Left(p) == IF p.kind = "circle" THEN p.x1 - p.x2 ELSE p.x1

Right(p) == IF p.kind = "circle" THEN p.x1 + p.x2 ELSE p.x1 + p.x2

Bottom(p) == IF p.kind = "circle" THEN p.y1 - p.y2 ELSE p.y1

Top(p) == IF p.kind = "circle" THEN p.y1 + p.y2 ELSE p.y1 + p.y2

\* Point (x, y) is within tol of the bounding box of shape p (tol 0: on or in it).
Within(x, y, p, tol) ==
    /\ Left(p) - tol <= x /\ x <= Right(p) + tol
    /\ Bottom(p) - tol <= y /\ y <= Top(p) + tol

Min2(a, b) == IF a <= b THEN a ELSE b

Max2(a, b) == IF a <= b THEN b ELSE a

\* Segment s (a line or an arrow, axis-parallel or not) has a point in or on the box
\* of p grown by pad: exact for the axis-parallel segments the builders draw.
Crosses(s, p, pad) ==
    /\ Min2(s.x1, s.x2) <= Right(p) + pad /\ Max2(s.x1, s.x2) >= Left(p) - pad
    /\ Min2(s.y1, s.y2) <= Top(p) + pad /\ Max2(s.y1, s.y2) >= Bottom(p) - pad

Idx(c, elem, kind) == {i \in DOMAIN c : c[i].elem = elem /\ c[i].kind = kind}

\* The horizontal run of the feedback loop: its line segments drawn at one height.
FeedbackRun(c) == {i \in Idx(c, "feedback", "line") : c[i].y1 = c[i].y2}

Region(c) == {i \in DOMAIN c : c[i].kind = "box" /\ c[i].role = "region"}

\* The fixed offset of a routed connector on canvas c: the height of its horizontal run.
Offsets(c, elem) == {c[i].y1 : i \in {j \in Idx(c, elem, "line") : c[j].y1 = c[j].y2}}

Ends(p) == {<<p.x1, p.y1>>, <<p.x2, p.y2>>}

\* A point of a routed connector at the connector's fixed offset (a waypoint).
Waypoint(c, i, pt) == c[i].role = "route" /\ pt[2] \in Offsets(c, c[i].elem)

\* C2 as claimed: when a connector is emitted, each of its end points lies on or in
\* the bounding box of a block, marker or region placed earlier on the same canvas, or
\* on a fixed anchor (a waypoint of its route).
C2_EndsOnPlacedBlocks ==
    \A c \in Building : \A i \in DOMAIN c :
        IsConnector(c[i]) =>
            \A pt \in Ends(c[i]) :
                \/ \E j \in 1..(i - 1) : IsShape(c[j]) /\ Within(pt[1], pt[2], c[j], 0)
                \/ Waypoint(SubSeq(c, 1, i), i, pt)

\* C2 amended: in the finished diagram each connector end point lies within 0.08 of
\* the bounding box of a block or marker of that diagram, placed before or after the
\* connector, or is a waypoint at the connector's fixed offset.
C2_EndsNearBlocks ==
    \A c \in Built : \A i \in DOMAIN c :
        IsConnector(c[i]) =>
            \A pt \in Ends(c[i]) :
                \/ \E j \in DOMAIN c :
                      /\ IsShape(c[j]) /\ c[j].role \in {"block", "marker"}
                      /\ Within(pt[1], pt[2], c[j], 8)
                \/ Waypoint(c, i, pt)

\* A finished canvas holds an arrow whose tip is on a block placed after it and an arrow
\* whose tip is in the gap before its block.
C2_Witness ==
    \E v \in Variants : \E c \in Finished(v) :
        /\ \E i \in DOMAIN c : \E j \in DOMAIN c :
              /\ i < j /\ c[i].kind = "arrow" /\ c[j].kind = "box"
              /\ Within(c[i].x2, c[i].y2, c[j], 0)
              /\ ~ \E k \in 1..(i - 1) : IsShape(c[k]) /\ Within(c[i].x2, c[i].y2, c[k], 0)
        /\ \E i \in DOMAIN c :
              /\ c[i].kind = "arrow"
              /\ ~ \E j \in DOMAIN c : c[j].role = "block" /\ IsShape(c[j])
                                       /\ Within(c[i].x2, c[i].y2, c[j], 0)

\* Place of a primitive in the claimed order of elements; 0 for the main-flow arrows,
\* which the order does not list.  Every free-standing label is an annotation label.
Stage(p) ==
    CASE p.role = "label" -> 12
      [] p.elem = "title" -> 1
      [] p.elem = "input" -> 2
      [] p.elem = "proj" -> 3
      [] p.elem = "rec" -> 4
      [] p.elem = "concat" -> 5
      [] p.elem = "conv" -> 6
      [] p.elem = "residual" -> 7
      [] p.elem = "feedback" -> 8
      [] p.elem = "head" -> 9
      [] p.elem = "output" -> 10
      [] p.elem = "inject" -> 11
      [] OTHER -> 0

\* The same, with the feedback loop's own label counted with the feedback loop.
StageOwn(p) == IF p.role = "label" /\ p.elem = "feedback" THEN 8 ELSE Stage(p)

\* C5 as claimed: the elements are emitted in the order title, input, projection,
\* region, marker, conv, residual, feedback loop, head, output, injection path,
\* annotation labels; every annotation label comes after the injection path.
C5_ElementOrder ==
    \A c \in Building : \A i \in DOMAIN c : \A j \in DOMAIN c :
        (i < j /\ Stage(c[i]) # 0 /\ Stage(c[j]) # 0) => Stage(c[i]) <= Stage(c[j])

\* C5 amended: the elements are emitted in that order, except that the feedback
\* loop's 'Latent' label is emitted right after the feedback-loop connector, before
\* the head block; the other annotation labels come after the injection path.
C5_ElementOrderOwnLabel ==
    \A c \in Building :
        /\ LET listed == SelectSeq(c, LAMBDA p : StageOwn(p) # 0)
           IN  \A i \in 1..(Len(listed) - 1) : StageOwn(listed[i]) <= StageOwn(listed[i + 1])
        /\ \A i \in DOMAIN c :
              (c[i].role = "label" /\ c[i].elem = "feedback")
                  => /\ i > 1 /\ c[i - 1].role = "route" /\ c[i - 1].elem = "feedback"
                     /\ \A j \in DOMAIN c : c[j].elem \in {"head", "output", "inject"} => i < j
        /\ \A i \in DOMAIN c :
              (c[i].role = "label" /\ c[i].elem # "feedback")
                  => \A s \in 1..11 : \E j \in 1..(i - 1) : StageOwn(c[j]) = s

\* Both builders have emitted every element, the labels included.
C5_Witness ==
    \A v \in Variants : \E c \in Finished(v) :
        /\ \A s \in 1..12 : \E i \in DOMAIN c : Stage(c[i]) = s
        /\ \E i \in DOMAIN c : c[i].role = "label" /\ c[i].elem = "feedback"

Boxes(c, elem) == Idx(c, elem, "box") \cup Idx(c, elem, "circle")

\* Segments of a routed connector: its plotted lines and its annotate arrows.
Segments(c, elem) == Idx(c, elem, "line") \cup Idx(c, elem, "annotate")

Descents(c, elem) == {i \in Idx(c, elem, "line") : c[i].x1 = c[i].x2 /\ c[i].y1 > c[i].y2}

Runs(c, elem) == {i \in Idx(c, elem, "line") : c[i].y1 = c[i].y2}

\* Arrow a of canvas c rises from the offset o and reaches shape t from below.
RisesInto(c, a, o, t) ==
    /\ c[a].x1 = c[a].x2 /\ c[a].y1 = o /\ c[a].y2 > o
    /\ Left(c[t]) <= c[a].x2 /\ c[a].x2 <= Right(c[t])
    /\ Bottom(c[t]) - 8 <= c[a].y2 /\ c[a].y2 <= Bottom(c[t])

\* Connector elem of canvas c goes from block src down to one offset, along it, and up
\* into each of the shapes tgts.
Routed(c, elem, src, tgts) ==
    /\ Cardinality(Offsets(c, elem)) = 1
    /\ Cardinality(Descents(c, elem)) = 1
    /\ Cardinality(Runs(c, elem)) = 1
    /\ Idx(c, elem, "line") = Descents(c, elem) \cup Runs(c, elem)
    /\ Cardinality(Idx(c, elem, "annotate")) = Cardinality(tgts)
    /\ \A o \in Offsets(c, elem) : \A d \in Descents(c, elem) : \A r \in Runs(c, elem) :
        /\ \A s \in Boxes(c, src) :
              /\ 2 * c[d].x1 = Left(c[s]) + Right(c[s])
              /\ Bottom(c[s]) - 8 <= c[d].y1 /\ c[d].y1 <= Bottom(c[s])
        /\ Boxes(c, src) # {}
        /\ c[d].y2 = o
        /\ c[r].x1 = c[d].x1
        /\ \A a \in Idx(c, elem, "annotate") :
              /\ Min2(c[r].x1, c[r].x2) <= c[a].x1 /\ c[a].x1 <= Max2(c[r].x1, c[r].x2)
              /\ \E e \in tgts : \E t \in Boxes(c, e) : RisesInto(c, a, o, t)
        /\ \A e \in tgts : \E t \in Boxes(c, e) : \E a \in Idx(c, elem, "annotate") :
              RisesInto(c, a, o, t)

\* C6: each routed connector (feedback loop: residual block to concat marker;
\* injection path: input block to concat marker and output block) descends from its
\* source to one fixed offset, runs horizontally at it and rises into each target from
\* below, and none of its segments touches the box (with its 0.02 pad) of the
\* projection, conv, residual or head block.
C6_RoutedAround ==
    \A c \in Built :
        /\ Routed(c, "feedback", "residual", {"concat"})
        /\ Routed(c, "inject", "input", {"concat", "output"})
        /\ \A elem \in {"feedback", "inject"} : \A s \in Segments(c, elem) :
              \A b \in {"proj", "conv", "residual", "head"} : \A t \in Boxes(c, b) :
                  ~ Crosses(c[s], c[t], 2)

\* Both builders have drawn both routed connectors and the four blocks between.
C6_Witness ==
    \A v \in Variants : \E c \in Finished(v) :
        /\ Cardinality(Segments(c, "feedback")) = 3
        /\ Cardinality(Segments(c, "inject")) = 4
        /\ \A b \in {"proj", "conv", "residual", "head"} : Boxes(c, b) # {}

SameButText(p, q) == [p EXCEPT !.text = ""] = [q EXCEPT !.text = ""]

TextDiff(c, d) == {i \in DOMAIN c : c[i].text # d[i].text}

\* C7: the DTNet and ITNet emitters issue the same sequence of primitives with the
\* same geometry, colors and styles, and their texts differ in exactly three places:
\* the title, the recurrent-block label and the residual block's subtitle.
C7_SameButThreeTexts ==
    \A c \in Finished("dt") : \A d \in Finished("it") :
        /\ Len(c) = Len(d)
        /\ \A i \in DOMAIN c : SameButText(c[i], d[i])
        /\ Cardinality(TextDiff(c, d)) = 3
        /\ \E i \in TextDiff(c, d) :
              c[i].elem = "title" /\ c[i].text = "DTNet" /\ d[i].text = "ITNet"
        /\ \E i \in TextDiff(c, d) :
              /\ c[i].elem = "rec" /\ c[i].kind = "text"
              /\ c[i].text = "Recurrent Block  (x $K$ iterations)"
              /\ d[i].text = "Recurrent Block  (x $K$ iters, until $|z^(k) - z^(k-1)| < eps$)"
        /\ \E i \in TextDiff(c, d) :
              /\ c[i].elem = "residual" /\ c[i].kind = "text"
              /\ c[i].text = "2x ResBlock" /\ d[i].text = "4x ResBlock"

\* One run has finished a DTNet canvas and an ITNet canvas.
C7_Witness == Finished("dt") # {} /\ Finished("it") # {}

\* Canvas c is a prefix of canvas d.
Prefix(c, d) == Len(c) <= Len(d) /\ SubSeq(d, 1, Len(c)) = c

\* C8: two invocations of an emitter with the same parameters issue the same sequence
\* of primitives with the same coordinates, whatever was invoked before them.
C8_Deterministic ==
    \A f \in DOMAIN figs : \A g \in DOMAIN figs :
        (/\ figs[f].variant = figs[g].variant
         /\ calls[figs[f].owner].path = calls[figs[g].owner].path)
            => Prefix(figs[f].canvas, figs[g].canvas) \/ Prefix(figs[g].canvas, figs[f].canvas)

\* The same emitter has finished two canvases for the same path in two invocations.
C8_Witness ==
    \E f \in DOMAIN figs : \E g \in DOMAIN figs :
        /\ f # g /\ figs[f].variant = figs[g].variant
        /\ calls[figs[f].owner].path = calls[figs[g].owner].path
        /\ figs[f].canvas \in Finished(figs[f].variant)
        /\ figs[g].canvas \in Finished(figs[g].variant)

Returned == {k \in DOMAIN calls : calls[k].outcome = "returned"}

Failed == {k \in DOMAIN calls : calls[k].outcome = "raised"}

\* The file at path q holds the finished diagram of call k.
HoldsDiagramOf(q, k) ==
    /\ files[q].state = "diagram" /\ files[q].by = k
    /\ files[q].variant = calls[k].variant
    /\ files[q].canvas \in Finished(calls[k].variant)

\* C3 as claimed: a failure while generating one variant does not keep the other from
\* being generated; under the entry point, a DTNet emitter that fails while saving
\* (its directory exists) is followed by a call of the ITNet emitter.
C3_OtherStillGenerated ==
    (mode = "main" /\ pc = "exit" /\ calls[1].raisedAt = "savefig") => Len(calls) = 2

\* C3 amended: a failure aborts the failing emitter at the failing step, with nothing
\* reported and no diagram of its own left, and propagates to the caller; a call
\* writes no path but its own.  Under the entry point a failing ITNet emitter leaves
\* the DTNet diagram written and reported, and a failing DTNet emitter ends the run
\* before the ITNet emitter is called, so no ITNet diagram is generated.
C3_AbortPropagates ==
    /\ \A k \in Failed :
          /\ \A n \in DOMAIN stdout : stdout[n].by # k
          /\ \A q \in Paths : ~ (files[q].state = "diagram" /\ files[q].by = k)
    /\ \A q \in Paths : files[q].by # 0 => calls[files[q].by].path = q
    /\ (mode = "main" /\ pc = "exit") =>
          /\ 1 \in Failed =>
                /\ Len(calls) = 1
                /\ \A f \in DOMAIN figs : figs[f].variant # "it"
                /\ files["it_net_architecture.pdf"].state # "diagram"
          /\ 1 \notin Failed =>
                /\ Len(calls) = 2
                /\ HoldsDiagramOf("dt_net_architecture.pdf", 1)
                /\ \E n \in DOMAIN stdout : stdout[n].by = 1

\* The entry point has ended right after the DTNet emitter's save raised.
C3_Witness ==
    mode = "main" /\ pc = "exit" /\ Len(calls) = 1 /\ calls[1].raisedAt = "savefig"

\* C4: each emitter ensures the directory, builds the canvas, saves it and reports
\* the path, in that order; 'Saved' is printed only after the save succeeded, never by
\* a call whose directory step or save raised.
C4_StepOrder ==
    /\ \A f \in DOMAIN figs :
          /\ parent = "dir"
          /\ figs[f].laidout # 0 => figs[f].canvas \in Finished(figs[f].variant)
          /\ figs[f].saved # 0 => figs[f].laidout # 0
    /\ \A q \in Paths : files[q].by # 0 => \E f \in DOMAIN figs :
          figs[f].owner = files[q].by /\ figs[f].laidout # 0
    /\ \A n \in DOMAIN stdout :
          /\ stdout[n].by \in Returned
          /\ stdout[n].path = calls[stdout[n].by].path
          /\ \E f \in DOMAIN figs : figs[f].owner = stdout[n].by /\ figs[f].saved = stdout[n].by
          /\ \A m \in DOMAIN stdout : m < n => stdout[m].by < stdout[n].by
    /\ \A k \in Returned : \E n \in DOMAIN stdout : stdout[n].by = k
    /\ \A k \in Failed : \A n \in DOMAIN stdout : stdout[n].by # k
    /\ (pc \in {"close", "print"}) => figs[frame.fig].saved = cur

\* One call's save raised and another call saved and reported its path.
C4_Witness ==
    /\ \E k \in Failed : calls[k].raisedAt = "savefig"
    /\ \E n \in DOMAIN stdout : stdout[n].by \in Returned

\* C9 as claimed: no canvas is shared across invocations: while an emitter runs, no
\* canvas created by an earlier call is open, and every canvas is drawn on, laid out
\* and saved by the call that created it only.
C9_NoCanvasOutlivesCall ==
    /\ pc \notin {"idle", "exit"} => \A n \in DOMAIN open : figs[open[n]].owner = cur
    /\ \A f \in DOMAIN figs :
          /\ figs[f].drawnBy \subseteq {figs[f].owner}
          /\ figs[f].laidout \in {0, figs[f].owner}
          /\ figs[f].saved \in {0, figs[f].owner}

\* C10: for invocations aimed at one output directory, the directory step succeeds
\* whether the directory is absent (and may be created) or already exists, creating
\* it at most once, and after each successful invocation the file at its path holds
\* that invocation's diagram, whatever an earlier invocation wrote there.
C10_MkdirIdempotentLastWriter ==
    /\ mkdirs <= 1
    /\ \A k \in Failed : calls[k].raisedAt = "mkdir" =>
          (parent = "file" \/ (parent = "absent" /\ ~canCreate))
    /\ pc \in {"subplots", "draw", "tight_layout", "savefig", "close", "print"} => parent = "dir"
    /\ \A k \in Returned :
          /\ files[calls[k].path].by >= k
          /\ files[calls[k].path].by = k => HoldsDiagramOf(calls[k].path, k)
    /\ (pc = "idle" /\ cur \in Returned) => HoldsDiagramOf(calls[cur].path, cur)

\* The directory was created by the first invocation and found by the second, which
\* replaced the other variant's diagram at the same path.
C10_Witness ==
    /\ mkdirs = 1 /\ Returned = {1, 2}
    /\ calls[1].path = calls[2].path /\ calls[1].variant # calls[2].variant
    /\ HoldsDiagramOf(calls[2].path, 2)

====
